---- MODULE Spec2Model ----
(***************************************************************************)
(* Silva: the ECS Registry (entities, sparse component stores, deferred    *)
(* kill, named systems, Zipper views) and the StateManager (stack of       *)
(* states with deferred push/pop/replace/stop).                            *)
(*                                                                         *)
(* Registry, Entity and Zipper are modelled from src/unnamed/part_001,     *)
(* sparse_array from src/unnamed/part_004 (the revision with a default     *)
(* size), StateManager from src/unnamed/part_003, and the system and state *)
(* callbacks from src/Tests.cpp and src/README.md.                         *)
(***************************************************************************)
EXTENDS Integers, Sequences, FiniteSets, TLC

(***************************************************************************)
(* Bounds of the model.                                                    *)
(***************************************************************************)
\* Entity ids the calls of the host are drawn from are 0 .. MaxEntities - 1,
\* and spawn_entity allocates fresh ids only below MaxEntities.
MaxEntities == 2

\* Number of Registry::update() calls in the specification of the systems
\* (the value-changing callbacks grow the component values on every call).
MaxUpdates == 4

\* Number of state objects the host and the states construct.
MaxObjects == 3

\* push / pop / replace / stop calls made between two StateManager::update()
\* calls.
MaxCalls == 2

(***************************************************************************)
(* Program constants and input domains.                                    *)
(***************************************************************************)
\* sparse_array(const size_type& default_size=20)
DefaultSize == 20

\* std::size_t arithmetic is modular.  The model keeps a 16 bit word: wide
\* enough that the only operation that can wrap is the subtraction of
\* Registry::entities_count().
SizeModulus == 2 ^ 16

\* The component types of the tests (MAKE_DUMMY(0), MAKE_DUMMY(1)).
Types == {"dummy0", "dummy1"}

\* Field values given to emplace (struct dummy { int x; }).
Vals == {1, 2}

\* std::optional<T>: std::nullopt is the empty sequence, a value v is <<v>>.
Null == <<>>
Some(v) == <<v>>

\* Entity::Id values the host passes to the Registry.
EntityIds == 0 .. (MaxEntities - 1)

\* Entity::Id values within and beyond a store of the default size.
StoreIds == {0, DefaultSize + 1}

\* Outcomes of a call: normal return of void, of an Entity, or an exception.
Void == [kind |-> "void"]
Throw == [kind |-> "throw", what |-> "SilvaError"]
Returned(id) == [kind |-> "entity", id |-> id]

(***************************************************************************)
(* sparse_array<T>: _data is a vector of optional slots; slot pos of the   *)
(* code is element pos + 1 of the sequence.                                *)
(***************************************************************************)
sparse_array == [i \in 1 .. DefaultSize |-> Null]

size(data) == Len(data)

\* Mutant: ensure_space adds one slot at most.
ensure_space_once(data, pos) ==
    IF Len(data) <= pos THEN Append(data, Null) ELSE data

ensure_space(data, pos) ==
    IF Len(data) <= pos
    THEN data \o [i \in 1 .. (pos + 1 - Len(data)) |-> Null]
    ELSE data

\* Mutant: insert keeps the value of an occupied slot.
insert_if_empty(data, pos, comp) ==
    LET grown == ensure_space(data, pos)
    IN  IF grown[pos + 1] = Null THEN [grown EXCEPT ![pos + 1] = Some(comp)]
        ELSE grown

insert(data, pos, comp) ==
    [ensure_space(data, pos) EXCEPT ![pos + 1] = Some(comp)]

\* Mutant: erase leaves the slot as it is.
erase_keeps(data, pos) == data

\* Mutant: erase reserves the slot it clears.
erase_grows(data, pos) == [ensure_space(data, pos) EXCEPT ![pos + 1] = Null]

erase(data, pos) ==
    IF pos >= Len(data) THEN data ELSE [data EXCEPT ![pos + 1] = Null]

non_null(data, pos) ==
    IF pos >= Len(data) THEN FALSE ELSE data[pos + 1] # Null

(***************************************************************************)
(* State.                                                                  *)
(***************************************************************************)
VARIABLES
    \* Registry
    _last_component_index,    \* next free component index
    _components_types_index,  \* registered type -> index
    _components,              \* one sparse_array per registered type
    _remove_system_methods,   \* one removal closure per type (the type it erases)
    _entities_count,          \* number of ids issued so far
    _to_kill_entities,        \* pending-kill
    _killed_entities,         \* purged ids, reusable
    _systems,                 \* std::map: name -> callback
    \* position of the host / of Registry::update()
    pc,                       \* "idle"; inside update(): "systems", or "thrown"
                              \* while an exception of a system leaves it
    queue,                    \* names update() has still to invoke, in map order
    ret,                      \* outcome of the last Registry call
    \* history of the current update() call
    purged,                   \* ids purged by step 1 of the current update()
    invoked,                  \* names invoked so far by the current update()
    snap,                     \* _components when the current update() was called
    regOrder,                 \* registered names in add_system order
    updates,                  \* update() calls made (systems specification)
    \* StateManager
    m_states,                 \* live stack, top last
    m_pending_state,          \* pending push
    m_pop_count,              \* pending pop-count
    smpc,                     \* "idle", "in_update" (inside top's update()), "crashed"
    smret,                    \* what the last StateManager::update() returned
    objects,                  \* state objects constructed so far (ids 1 ..)
    origin,                   \* object -> the state whose update() replaced itself
                              \* by it (NoObject for any other object)
    inited,                   \* objects on which init() has been called
    destroyed,                \* objects destroyed
    events,                   \* what the last update() call did, in order
    popRequested,             \* pop / stop / replace called since the last update() call
    calls,                    \* the calls made on the manager since the last
                              \* update() call, in order, with that update()
                              \* call as long as no other has followed it
    \* history of the calls of the host on the registry
    call,                     \* the last call made, with what it was given
    lastop,                   \* <<type, id>> -> the last of emplace / remove
                              \* made with them ("none" before any)
    \* history of the entities as their holders see them
    life,                     \* id -> "none" (never returned by spawn_entity),
                              \* "live" (returned, not killed since) or
                              \* "killed" (kill_entity called since)
    strays,                   \* ids kill_entity was given before any
                              \* spawn_entity had returned them
    \* the Zipper the host holds, and the iterator of its loop
    zip                       \* NoView, or the types, the _idx of _begin,
                              \* the _idx of _end and of the iterator of the
                              \* loop, and the ++ made by the loop

regvars == <<_last_component_index, _components_types_index, _components,
             _remove_system_methods, _entities_count, _to_kill_entities,
             _killed_entities, _systems>>
ctlvars == <<pc, queue, ret>>
histvars == <<purged, invoked, snap, regOrder>>
smvars == <<m_states, m_pending_state, m_pop_count, smpc, smret, objects,
            origin, inited, destroyed, events, popRequested, calls>>
lifevars == <<life, strays>>
viewvars == <<zip>>
apivars == <<call, lastop, life, strays, zip>>
vars == <<regvars, ctlvars, histvars, updates, smvars, apivars>>

\* An empty std::unique_ptr<AState>; the state objects are 1, 2, ...
NoObject == 0

Init ==
    /\ _last_component_index = 0
    /\ _components_types_index = <<>>
    /\ _components = <<>>
    /\ _remove_system_methods = <<>>
    /\ _entities_count = 0
    /\ _to_kill_entities = {}
    /\ _killed_entities = {}
    /\ _systems = <<>>
    /\ pc = "idle"
    /\ queue = <<>>
    /\ ret = Void
    /\ purged = {}
    /\ invoked = <<>>
    /\ snap = <<>>
    /\ regOrder = <<>>
    /\ updates = 0
    /\ m_states = <<>>
    /\ m_pending_state = NoObject
    /\ m_pop_count = 0
    /\ smpc = "idle"
    /\ smret = FALSE
    /\ objects = 0
    /\ origin = <<>>
    /\ inited = {}
    /\ destroyed = {}
    /\ events = <<>>
    /\ popRequested = FALSE
    /\ calls = <<>>
    /\ call = [op |-> "none"]
    /\ lastop = [slot \in Types \X StoreIds |-> "none"]
    /\ life = [id \in EntityIds |-> "none"]
    /\ strays = {}
    /\ zip = [state |-> "none"]

(***************************************************************************)
(* Registry: component stores.                                             *)
(***************************************************************************)
registered(T) == T \in DOMAIN _components_types_index

\* _type_index<T>() then _components[...]: defined for a registered type.
get_components(T) == _components[_components_types_index[T] + 1]

\* Mutant: the store of T replaces the store of every type.
with_all_components(comps, T, data) ==
    [k \in 1 .. Len(comps) |-> data]

\* _components with the store of T replaced.
with_components(comps, T, data) ==
    [comps EXCEPT ![_components_types_index[T] + 1] = data]

\* Mutant: register_component does not look for the type.
register_component_again(T) ==
    /\ pc = "idle"
    /\ _components_types_index' =
          [U \in DOMAIN _components_types_index \cup {T} |->
              IF U = T THEN _last_component_index
              ELSE _components_types_index[U]]
    /\ _last_component_index' = _last_component_index + 1
    /\ _components' = Append(_components, sparse_array)
    /\ _remove_system_methods' = Append(_remove_system_methods, T)
    /\ ret' = Void
    /\ UNCHANGED <<_entities_count, _to_kill_entities, _killed_entities,
                   _systems, pc, queue, histvars, smvars>>

\* Mutant: register_component gives the index without counting it.
register_component_same_index(T) ==
    /\ pc = "idle"
    /\ IF registered(T)
       THEN /\ ret' = Throw
            /\ UNCHANGED regvars
       ELSE /\ _components_types_index' =
                  _components_types_index @@ (T :> _last_component_index)
            /\ _components' = Append(_components, sparse_array)
            /\ _remove_system_methods' = Append(_remove_system_methods, T)
            /\ ret' = Void
            /\ UNCHANGED <<_last_component_index, _entities_count,
                           _to_kill_entities, _killed_entities, _systems>>
    /\ UNCHANGED <<pc, queue, histvars, smvars>>

register_component(T) ==
    /\ pc = "idle"
    /\ IF registered(T)
       THEN /\ ret' = Throw
            /\ UNCHANGED regvars
       ELSE /\ _components_types_index' =
                  _components_types_index @@ (T :> _last_component_index)
            /\ _last_component_index' = _last_component_index + 1
            /\ _components' = Append(_components, sparse_array)
            /\ _remove_system_methods' = Append(_remove_system_methods, T)
            /\ ret' = Void
            /\ UNCHANGED <<_entities_count, _to_kill_entities,
                           _killed_entities, _systems>>
    /\ UNCHANGED <<pc, queue, histvars, smvars>>

emplace_component(T, to, c) ==
    /\ pc = "idle"
    /\ IF registered(T)
       THEN /\ _components' = with_components(_components, T,
                                              insert(get_components(T), to, c))
            /\ ret' = Void
       ELSE /\ ret' = Throw
            /\ UNCHANGED _components
    /\ UNCHANGED <<_last_component_index, _components_types_index,
                   _remove_system_methods, _entities_count, _to_kill_entities,
                   _killed_entities, _systems, pc, queue, histvars, smvars>>

remove_component(T, from) ==
    /\ pc = "idle"
    /\ IF registered(T)
       THEN /\ _components' = with_components(_components, T,
                                              erase(get_components(T), from))
            /\ ret' = Void
       ELSE /\ ret' = Throw
            /\ UNCHANGED _components
    /\ UNCHANGED <<_last_component_index, _components_types_index,
                   _remove_system_methods, _entities_count, _to_kill_entities,
                   _killed_entities, _systems, pc, queue, histvars, smvars>>

\* What get_component<T>(id) gives in a registry whose stores are comps:
\* the value, a SilvaError (type not registered, or slot empty), or
\* undefined behaviour (operator[] beyond the end of the vector).
NotFound == [kind |-> "throw", what |-> "SilvaError"]
Undefined == [kind |-> "undefined"]
Value(v) == [kind |-> "value", value |-> v]

get_component_in(comps, T, id) ==
    IF ~registered(T) THEN NotFound
    ELSE LET data == comps[_components_types_index[T] + 1]
         IN  IF id >= Len(data) THEN Undefined
             ELSE IF data[id + 1] = Null THEN NotFound
             ELSE Value(data[id + 1][1])

get_component(T, id) == get_component_in(_components, T, id)

\* What the read of a slot beyond the end of the vector may give: an
\* optional that looks empty, one that looks engaged, or a fault.
Crash == [kind |-> "crash"]
UndefinedReads == {NotFound, Crash} \cup {Value(v) : v \in Vals}

\* Entity::get<T>() of the entity id: Registry::get_component<T>(id).
Entity_get(T, id) ==
    /\ pc = "idle"
    /\ LET found == get_component(T, id)
       IN  IF found = Undefined
           THEN \E read \in UndefinedReads :
                   /\ ret' = read
                   /\ pc' = IF read = Crash THEN "crashed" ELSE pc
           ELSE /\ ret' = found
                /\ UNCHANGED pc
    /\ UNCHANGED <<regvars, queue, histvars, smvars>>

(***************************************************************************)
(* Registry: entities.                                                     *)
(***************************************************************************)
\* Mutant: spawn_entity never takes an id of the dead pool.
spawn_always_new ==
    /\ pc = "idle"
    /\ _entities_count < MaxEntities
    /\ _entities_count' = _entities_count + 1
    /\ ret' = Returned(_entities_count)
    /\ UNCHANGED <<_last_component_index, _components_types_index, _components,
                   _remove_system_methods, _to_kill_entities, _killed_entities,
                   _systems, pc, queue, histvars, smvars>>

\* The guard on MaxEntities bounds the ids the model issues.
spawn_entity ==
    /\ pc = "idle"
    /\ IF _killed_entities = {}
       THEN /\ _entities_count < MaxEntities
            /\ _entities_count' = _entities_count + 1
            /\ ret' = Returned(_entities_count)
            /\ UNCHANGED _killed_entities
       ELSE \* *_killed_entities.begin(): whichever element the
            \* unordered_set iterates first
            \E random_id \in _killed_entities :
               /\ _killed_entities' = _killed_entities \ {random_id}
               /\ ret' = Returned(random_id)
               /\ UNCHANGED _entities_count
    /\ UNCHANGED <<_last_component_index, _components_types_index, _components,
                   _remove_system_methods, _to_kill_entities, _systems,
                   pc, queue, histvars, smvars>>

\* Mutant: the components of the entity are removed at once.
kill_entity_eager(id) ==
    /\ pc = "idle"
    /\ _to_kill_entities' = _to_kill_entities \cup {id}
    /\ _components' = [k \in 1 .. Len(_components) |-> erase(_components[k], id)]
    /\ ret' = Void
    /\ UNCHANGED <<_last_component_index, _components_types_index,
                   _remove_system_methods, _entities_count, _killed_entities,
                   _systems, pc, queue, histvars, smvars>>

kill_entity(id) ==
    /\ pc = "idle"
    /\ _to_kill_entities' = _to_kill_entities \cup {id}
    /\ ret' = Void
    /\ UNCHANGED <<_last_component_index, _components_types_index, _components,
                   _remove_system_methods, _entities_count, _killed_entities,
                   _systems, pc, queue, histvars, smvars>>

\* _entities_count - (_killed_entities.size() + _to_kill_entities.size())
entities_count_of(count, killed, to_kill) ==
    (count - (Cardinality(killed) + Cardinality(to_kill))) % SizeModulus

entities_count == entities_count_of(_entities_count, _killed_entities,
                                    _to_kill_entities)

\* Entity::Id _last_entity_id = -1, which no member function assigns.
_last_entity_id == SizeModulus - 1

is_entity_valid(from) ==
    IF _last_entity_id >= from
    THEN from \notin _killed_entities
    ELSE FALSE

(***************************************************************************)
(* Zipper<Containers...> over the stores comps; types is the sequence      *)
(* T1 .. Tn of the queried component types (all registered).               *)
(***************************************************************************)
all_set(comps, types, idx) ==
    \A k \in 1 .. Len(types) :
        non_null(comps[_components_types_index[types[k]] + 1], idx)

\* Largest size of the queried stores: no index at or beyond it is set.
zip_size(comps, types) ==
    LET sizes == {Len(comps[_components_types_index[types[k]] + 1]) :
                     k \in 1 .. Len(types)}
    IN  CHOOSE n \in sizes : \A m \in sizes : m <= n

\* The loop of incr_all once ++_idx is done: advance while the index is not
\* set in every store and is not _end.  Beyond the stores no index is set,
\* so the loop runs straight to _end (or, past _end, wraps around to it).
RECURSIVE incr_loop(_, _, _, _)
incr_loop(comps, types, idx, end) ==
    IF all_set(comps, types, idx) \/ idx = end THEN idx
    ELSE IF idx >= zip_size(comps, types) /\ idx < end THEN end
    ELSE IF idx >= zip_size(comps, types)
         THEN incr_loop(comps, types, 0, end)
    ELSE incr_loop(comps, types, idx + 1, end)

\* Mutant: ++ leaves out the increment that precedes the loop.
incr_all_stays(comps, types, idx, end) ==
    incr_loop(comps, types, idx, end)

incr_all(comps, types, idx, end) ==
    incr_loop(comps, types, (idx + 1) % SizeModulus, end)

\* iterator(vref, index, end, r)
iterator(comps, types, index, end) ==
    IF ~all_set(comps, types, index) /\ index # end
    THEN incr_all(comps, types, index, end)
    ELSE index

\* for (auto it : zipper): the indices the loop dereferences, in order,
\* while the stores are not changed by the loop body.
RECURSIVE zip_loop(_, _, _, _)
zip_loop(comps, types, idx, end) ==
    IF idx = end THEN <<>>
    ELSE <<idx>> \o zip_loop(comps, types, incr_all(comps, types, idx, end), end)

\* Registry::view<T1..Tn>() iterated from begin() to end().
view(types) ==
    zip_loop(_components, types,
             iterator(_components, types, 0, entities_count), entities_count)

\* The entities whose slots are occupied in every queried store.
holders(comps, types) ==
    {id \in 0 .. (zip_size(comps, types) - 1) : all_set(comps, types, id)}

\* No Zipper is held.
NoView == [state |-> "none"]

\* std::optional::value() of an empty slot.
BadAccess == [kind |-> "throw", what |-> "bad_optional_access"]

\* iterator::operator*(): the entity of _idx and the value() of its slot in
\* every queried store, read from the stores when it is called.
deref(comps, types, idx) ==
    IF all_set(comps, types, idx)
    THEN [kind |-> "tuple", id |-> idx,
          values |-> [k \in 1 .. Len(types) |->
                         comps[_components_types_index[types[k]] + 1][idx + 1][1]]]
    ELSE BadAccess

\* Mutant: the assignment changes a copy of the component.
write_to_copy(comps, T, idx, c) == comps

\* An assignment through the reference Containers & that operator*() has
\* yielded for the type T at _idx.
write_through(comps, T, idx, c) ==
    with_components(comps, T,
        [comps[_components_types_index[T] + 1] EXCEPT ![idx + 1] = Some(c)])

\* Zipper(r): _end and _begin are built once, in the constructor.
Zipper(types) ==
    [state |-> "built", types |-> types,
     begin |-> iterator(_components, types, 0, entities_count),
     end |-> entities_count,
     idx |-> iterator(_components, types, 0, entities_count),
     incs |-> 0]

(***************************************************************************)
(* Registry: systems.  A callback is one of the lambdas of src/Tests.cpp;  *)
(* it reads and changes the registry it is passed.                         *)
(***************************************************************************)
\* The entity the lambdas capture ([&e], the first entity spawned).
CapturedEntity == 0

\* The names of the tests, in the order of std::less<std::string>, which is
\* the order std::map iterates its keys in.
SystemNames == <<"d0add4", "d1add1", "kall">>

Callbacks == {"x_add_4", "x_add_1", "kill_all"}

\* e.get<Component>().x += n: get_component throws when e has no Component.
add_to_component(T, n) ==
    LET got == get_component(T, CapturedEntity)
    IN  IF got.kind = "value"
        THEN [components |-> with_components(_components, T,
                  [get_components(T) EXCEPT ![CapturedEntity + 1] =
                                               Some(got.value + n)]),
              to_kill |-> _to_kill_entities,
              thrown |-> FALSE]
        ELSE [components |-> _components,
              to_kill |-> _to_kill_entities,
              thrown |-> TRUE]

\* for (auto [e, _, __] : r.view<dummy0, dummy1>()) { e.kill(); }
\* Each e.kill() inserts the dereferenced index into _to_kill_entities; the
\* Zipper keeps the _end computed when it was constructed.
RECURSIVE kill_loop(_, _, _, _)
kill_loop(types, idx, end, to_kill) ==
    IF idx = end THEN to_kill
    ELSE kill_loop(types, incr_all(_components, types, idx, end), end,
                   to_kill \cup {idx})

kill_first_matched(types) ==
    IF \A k \in 1 .. Len(types) : registered(types[k])
    THEN LET first == iterator(_components, types, 0, entities_count)
         IN  [components |-> _components,
              to_kill |-> IF first = entities_count THEN _to_kill_entities
                          ELSE _to_kill_entities \cup {first},
              thrown |-> FALSE]
    ELSE [components |-> _components,
          to_kill |-> _to_kill_entities,
          thrown |-> TRUE]
kill_all_matched(types) ==
    IF \A k \in 1 .. Len(types) : registered(types[k])
    THEN [components |-> _components,
          to_kill |-> kill_loop(types,
                                iterator(_components, types, 0, entities_count),
                                entities_count, _to_kill_entities),
          thrown |-> FALSE]
    ELSE [components |-> _components,
          to_kill |-> _to_kill_entities,
          thrown |-> TRUE]

\* system(*this)
call_system(callback) ==
    CASE callback = "x_add_4" -> add_to_component("dummy0", 4)
      [] callback = "x_add_1" -> add_to_component("dummy1", 1)
      [] callback = "kill_all" -> kill_all_matched(<<"dummy0", "dummy1">>)

\* Mutant: add_system stores the callback under a name in use.
add_system_overwrite(name, sys) ==
    /\ pc = "idle"
    /\ _systems' = [n \in DOMAIN _systems \cup {name} |->
                       IF n = name THEN sys ELSE _systems[n]]
    /\ regOrder' = IF name \in DOMAIN _systems THEN regOrder
                   ELSE Append(regOrder, name)
    /\ ret' = Void
    /\ UNCHANGED <<_last_component_index, _components_types_index, _components,
                   _remove_system_methods, _entities_count, _to_kill_entities,
                   _killed_entities, pc, queue, purged, invoked, snap, smvars>>

add_system(name, sys) ==
    /\ pc = "idle"
    /\ IF name \in DOMAIN _systems
       THEN /\ ret' = Throw
            /\ UNCHANGED <<_systems, regOrder>>
       ELSE /\ _systems' = _systems @@ (name :> sys)
            /\ regOrder' = Append(regOrder, name)
            /\ ret' = Void
    /\ UNCHANGED <<_last_component_index, _components_types_index, _components,
                   _remove_system_methods, _entities_count, _to_kill_entities,
                   _killed_entities, pc, queue, purged, invoked, snap, smvars>>

\* Mutant: remove_system leaves the callback in the table.
remove_system_keeps(name) ==
    /\ pc = "idle"
    /\ regOrder' = SelectSeq(regOrder, LAMBDA n : n # name)
    /\ ret' = IF name \in DOMAIN _systems THEN Void ELSE Throw
    /\ UNCHANGED <<regvars, pc, queue, purged, invoked, snap, smvars>>

remove_system(name) ==
    /\ pc = "idle"
    /\ IF name \in DOMAIN _systems
       THEN /\ _systems' = [n \in DOMAIN _systems \ {name} |-> _systems[n]]
            /\ regOrder' = SelectSeq(regOrder, LAMBDA n : n # name)
            /\ ret' = Void
       ELSE /\ ret' = Throw
            /\ UNCHANGED <<_systems, regOrder>>
    /\ UNCHANGED <<_last_component_index, _components_types_index, _components,
                   _remove_system_methods, _entities_count, _to_kill_entities,
                   _killed_entities, pc, queue, purged, invoked, snap, smvars>>

(***************************************************************************)
(* Registry::update().  One step purges pending-kill and starts the walk   *)
(* over _systems; one step per system invokes it; one step returns.  The   *)
(* host makes no other call in between (pc = "systems").                   *)
(***************************************************************************)
\* Mutant: only the first removal closure is invoked.
remove_first_component(comps, k, e) ==
    IF Len(_remove_system_methods) = 0 THEN comps
    ELSE with_components(comps, _remove_system_methods[1],
             erase(comps[_components_types_index[_remove_system_methods[1]] + 1], e))

\* f(e) for every f of _remove_system_methods: remove_component<T>(e).
RECURSIVE remove_all_components(_, _, _)
remove_all_components(comps, k, e) ==
    IF k > Len(_remove_system_methods) THEN comps
    ELSE remove_all_components(
             with_components(comps, _remove_system_methods[k],
                 erase(comps[_components_types_index[
                                 _remove_system_methods[k]] + 1], e)),
             k + 1, e)

\* The loop over _to_kill_entities (in whatever order the set iterates).
RECURSIVE purge(_, _)
purge(comps, to_kill) ==
    IF to_kill = {} THEN comps
    ELSE LET e == CHOOSE x \in to_kill : TRUE
         IN  purge(remove_all_components(comps, 1, e), to_kill \ {e})

\* Mutant: the walk over _systems stops before its last entry.
systems_but_last ==
    LET all == SelectSeq(SystemNames, LAMBDA n : n \in DOMAIN _systems)
    IN  SubSeq(all, 1, Len(all) - 1)

\* The keys of _systems in the order the map iterates them.
systems_in_order == SelectSeq(SystemNames, LAMBDA n : n \in DOMAIN _systems)

update_purge ==
    /\ pc = "idle"
    /\ _components' = purge(_components, _to_kill_entities)
    /\ _killed_entities' = _killed_entities \cup _to_kill_entities
    /\ _to_kill_entities' = {}
    /\ pc' = "systems"
    /\ queue' = systems_in_order
    /\ purged' = _to_kill_entities
    /\ invoked' = <<>>
    /\ snap' = _components
    /\ UNCHANGED <<_last_component_index, _components_types_index,
                   _remove_system_methods, _entities_count, _systems, ret,
                   regOrder, smvars>>

update_system ==
    /\ pc = "systems"
    /\ queue # <<>>
    /\ LET r == call_system(_systems[Head(queue)])
       IN  IF r.thrown
           THEN \* the exception leaves the loop over _systems
                /\ pc' = "thrown"
                /\ queue' = Tail(queue)
                /\ invoked' = Append(invoked, Head(queue))
                /\ UNCHANGED <<_components, _to_kill_entities, ret, purged,
                               snap>>
           ELSE /\ _components' = r.components
                /\ _to_kill_entities' = r.to_kill
                /\ queue' = Tail(queue)
                /\ invoked' = Append(invoked, Head(queue))
                /\ UNCHANGED <<pc, ret, purged, snap>>
    /\ UNCHANGED <<_last_component_index, _components_types_index,
                   _remove_system_methods, _entities_count, _killed_entities,
                   _systems, regOrder, smvars>>

\* update() returns, or the exception of a system propagates to the host.
update_return ==
    /\ \/ pc = "systems" /\ queue = <<>> /\ ret' = Void
       \/ pc = "thrown" /\ ret' = Throw
    /\ pc' = "idle"
    /\ queue' = <<>>
    /\ purged' = {}
    /\ invoked' = <<>>
    /\ snap' = <<>>
    /\ UNCHANGED <<regvars, regOrder, smvars>>

(***************************************************************************)
(* The registry under the calls of a host: components are registered,      *)
(* entities spawned and killed, components emplaced (with the value 1 of   *)
(* the tests) and removed, the kill-everything system of the tests added   *)
(* and removed, and update() called.                                       *)
(***************************************************************************)
Next ==
    \/ \E T \in Types : register_component(T) /\ UNCHANGED <<updates, apivars>>
    \/ spawn_entity /\ UNCHANGED <<updates, apivars>>
    \/ \E id \in EntityIds : kill_entity(id) /\ UNCHANGED <<updates, apivars>>
    \/ \E T \in Types, id \in EntityIds :
          emplace_component(T, id, 1) /\ UNCHANGED <<updates, apivars>>
    \/ \E T \in Types, id \in EntityIds :
          remove_component(T, id) /\ UNCHANGED <<updates, apivars>>
    \/ add_system("kall", "kill_all") /\ UNCHANGED <<updates, apivars>>
    \/ remove_system("kall") /\ UNCHANGED <<updates, apivars>>
    \/ update_purge /\ UNCHANGED <<updates, apivars>>
    \/ update_system /\ UNCHANGED <<updates, apivars>>
    \/ update_return /\ UNCHANGED <<updates, apivars>>

Spec == Init /\ [][Next]_vars

(***************************************************************************)
(* The registry under the systems of the tests: the two components are     *)
(* registered, the captured entity is spawned and given components, the    *)
(* value-changing systems are added and removed under either name, and     *)
(* update() is called up to MaxUpdates times.                              *)
(***************************************************************************)
NextSys ==
    \/ \E T \in Types : register_component(T) /\ UNCHANGED <<updates, apivars>>
    \/ _entities_count = 0 /\ spawn_entity /\ UNCHANGED <<updates, apivars>>
    \/ \E T \in Types, c \in Vals :
          emplace_component(T, CapturedEntity, c) /\ UNCHANGED <<updates, apivars>>
    \/ \E T \in Types :
          remove_component(T, CapturedEntity) /\ UNCHANGED <<updates, apivars>>
    \/ \E name \in {"d0add4", "d1add1"}, sys \in {"x_add_4", "x_add_1"} :
          add_system(name, sys) /\ UNCHANGED <<updates, apivars>>
    \/ \E name \in {"d0add4", "d1add1"} :
          remove_system(name) /\ UNCHANGED <<updates, apivars>>
    \/ /\ updates < MaxUpdates /\ update_purge /\ updates' = updates + 1
       /\ UNCHANGED apivars
    \/ update_system /\ UNCHANGED <<updates, apivars>>
    \/ update_return /\ UNCHANGED <<updates, apivars>>

SpecSys == Init /\ [][NextSys]_vars

Range(seq) == {seq[i] : i \in 1 .. Len(seq)}

(***************************************************************************)
(* The registry under the three systems of the tests, each under its own   *)
(* name, added and removed between update() calls; call keeps the last     *)
(* remove_system and whether the name was registered.                      *)
(***************************************************************************)
CallbackOf(name) ==
    CASE name = "d0add4" -> "x_add_4"
      [] name = "d1add1" -> "x_add_1"
      [] name = "kall" -> "kill_all"

NextRemoval ==
    \/ \E T \in Types : register_component(T) /\ UNCHANGED <<updates, apivars>>
    \/ _entities_count = 0 /\ spawn_entity /\ UNCHANGED <<updates, apivars>>
    \/ \E T \in Types :
          emplace_component(T, CapturedEntity, 1) /\ UNCHANGED <<updates, apivars>>
    \/ \E name \in Range(SystemNames) :
          add_system(name, CallbackOf(name)) /\ UNCHANGED <<updates, apivars>>
    \/ \E name \in Range(SystemNames) :
          /\ remove_system(name)
          /\ call' = [op |-> "remove_system", name |-> name,
                      was |-> name \in DOMAIN _systems]
          /\ UNCHANGED <<updates, lastop, lifevars, viewvars>>
    \/ /\ updates < MaxUpdates /\ update_purge /\ updates' = updates + 1
       /\ UNCHANGED apivars
    \/ update_system /\ UNCHANGED <<updates, apivars>>
    \/ update_return /\ UNCHANGED <<updates, apivars>>

SpecRemoval == Init /\ [][NextRemoval]_vars

(***************************************************************************)
(* The component stores under the calls of a host that also misuses them:  *)
(* types registered twice or not at all, ids beyond the stores.            *)
(***************************************************************************)
NextApi ==
    \/ \E T \in Types :
          /\ register_component(T)
          /\ call' = [op |-> "register", T |-> T]
          /\ UNCHANGED <<lastop, updates, lifevars, viewvars>>
    \/ \E T \in Types, id \in StoreIds, c \in Vals :
          /\ emplace_component(T, id, c)
          /\ call' = [op |-> "emplace", T |-> T, id |-> id, c |-> c,
                      before |-> get_component(T, id)]
          /\ lastop' = IF registered(T)
                       THEN [lastop EXCEPT ![<<T, id>>] = "emplace"]
                       ELSE lastop
          /\ UNCHANGED <<updates, lifevars, viewvars>>
    \/ \E T \in Types, id \in StoreIds :
          /\ remove_component(T, id)
          /\ call' = [op |-> "remove", T |-> T, id |-> id]
          /\ lastop' = IF registered(T)
                       THEN [lastop EXCEPT ![<<T, id>>] = "remove"]
                       ELSE lastop
          /\ UNCHANGED <<updates, lifevars, viewvars>>
    \/ \E T \in Types, id \in StoreIds :
          /\ Entity_get(T, id)
          /\ call' = [op |-> "get", T |-> T, id |-> id]
          /\ UNCHANGED <<lastop, updates, lifevars, viewvars>>

SpecApi == Init /\ [][NextApi]_vars

(***************************************************************************)
(* The table of systems under the calls of a host that also adds a name    *)
(* twice and removes one that is absent.                                   *)
(***************************************************************************)
NextTable ==
    \/ \E name \in Range(SystemNames), sys \in {"x_add_4", "x_add_1"} :
          /\ add_system(name, sys)
          /\ call' = [op |-> "add_system", name |-> name, sys |-> sys]
          /\ UNCHANGED <<lastop, updates, lifevars, viewvars>>
    \/ \E name \in Range(SystemNames) :
          /\ remove_system(name)
          /\ call' = [op |-> "remove_system", name |-> name]
          /\ UNCHANGED <<lastop, updates, lifevars, viewvars>>

SpecTable == Init /\ [][NextTable]_vars

(***************************************************************************)
(* The lives of the entities: the host spawns and kills entities, kills    *)
(* ids again or ids it was never given, emplaces components on the        *)
(* entities it was given and that are not in the dead pool, removes        *)
(* components and calls update(); no system is registered.  life and       *)
(* strays keep what the host has been given and what it has killed.        *)
(***************************************************************************)
NextLife ==
    \/ \E T \in Types : register_component(T) /\ UNCHANGED <<updates, apivars>>
    \/ /\ spawn_entity
       /\ life' = [life EXCEPT ![ret'.id] = "live"]
       /\ UNCHANGED <<updates, call, lastop, strays, viewvars>>
    \/ \E id \in EntityIds :
          /\ kill_entity(id)
          /\ life' = [life EXCEPT ![id] = IF @ = "none" THEN @ ELSE "killed"]
          /\ strays' = IF life[id] = "none" THEN strays \cup {id} ELSE strays
          /\ UNCHANGED <<updates, call, lastop, viewvars>>
    \/ \E T \in Types, id \in EntityIds :
          /\ life[id] # "none"
          /\ id \notin _killed_entities
          /\ emplace_component(T, id, 1)
          /\ UNCHANGED <<updates, apivars>>
    \/ \E T \in Types, id \in EntityIds :
          remove_component(T, id) /\ UNCHANGED <<updates, apivars>>
    \/ update_purge /\ UNCHANGED <<updates, apivars>>
    \/ update_return /\ UNCHANGED <<updates, apivars>>

SpecLife == Init /\ [][NextLife]_vars

(***************************************************************************)
(* A view held by the host (View<T...> v(r)) and the loops over it, as in  *)
(* Zipper::each: it = begin(); while it != end(): *it, then ++it.  Between *)
(* the steps of the loop the body, or the host between two loops, emplaces *)
(* and removes components and assigns through the references *it yields.   *)
(* call keeps the last assignment until the slot is emplaced or removed.   *)
(***************************************************************************)
\* View<T...> v(r), with every T registered (_type_index throws otherwise)
zip_view(types) ==
    /\ pc = "idle"
    /\ zip.state \in {"none", "done"}
    /\ IF \A k \in 1 .. Len(types) : registered(types[k])
       THEN zip' = Zipper(types) /\ ret' = Void
       ELSE zip' = NoView /\ ret' = Throw
    /\ UNCHANGED <<regvars, pc, queue, histvars, smvars>>

\* it = begin(), then the test it != end()
zip_begin ==
    /\ pc = "idle"
    /\ zip.state \in {"built", "done"}
    /\ zip' = [zip EXCEPT !.idx = zip.begin, !.incs = 0,
                          !.state = IF zip.begin = zip.end THEN "done"
                                    ELSE "looping"]
    /\ UNCHANGED <<regvars, ctlvars, histvars, smvars>>

\* *it
zip_deref ==
    /\ pc = "idle"
    /\ zip.state = "looping"
    /\ ret' = deref(_components, zip.types, zip.idx)
    /\ UNCHANGED <<regvars, pc, queue, histvars, smvars, zip>>

\* std::get<T &>(*it).x = c
zip_write(T, c) ==
    /\ pc = "idle"
    /\ zip.state = "looping"
    /\ T \in Range(zip.types)
    /\ IF deref(_components, zip.types, zip.idx) = BadAccess
       THEN /\ ret' = BadAccess
            /\ UNCHANGED _components
       ELSE /\ ret' = Void
            /\ _components' = write_through(_components, T, zip.idx, c)
    /\ UNCHANGED <<_last_component_index, _components_types_index,
                   _remove_system_methods, _entities_count, _to_kill_entities,
                   _killed_entities, _systems, pc, queue, histvars, smvars,
                   zip>>

\* ++it, then the test it != end()
zip_incr ==
    /\ pc = "idle"
    /\ zip.state = "looping"
    /\ LET next == incr_all(_components, zip.types, zip.idx, zip.end)
       IN  zip' = [zip EXCEPT !.idx = next, !.incs = @ + 1,
                              !.state = IF next = zip.end THEN "done"
                                        ELSE "looping"]
    /\ UNCHANGED <<regvars, ctlvars, histvars, smvars>>

NextZip ==
    \/ \E T \in Types :
          /\ zip.state = "none"
          /\ register_component(T)
          /\ UNCHANGED <<updates, apivars>>
    \/ /\ zip.state = "none"
       /\ spawn_entity
       /\ UNCHANGED <<updates, apivars>>
    \/ \E T \in Types, id \in EntityIds :
          /\ emplace_component(T, id, 1)
          /\ call' = [op |-> "none"]
          /\ UNCHANGED <<updates, lastop, lifevars, viewvars>>
    \/ \E T \in Types, id \in EntityIds :
          /\ remove_component(T, id)
          /\ call' = [op |-> "none"]
          /\ UNCHANGED <<updates, lastop, lifevars, viewvars>>
    \/ \E types \in {<<"dummy0">>, <<"dummy0", "dummy1">>} :
          /\ zip_view(types)
          /\ UNCHANGED <<updates, call, lastop, lifevars>>
    \/ zip_begin /\ UNCHANGED <<updates, call, lastop, lifevars>>
    \/ zip_deref /\ UNCHANGED <<updates, call, lastop, lifevars>>
    \/ \E T \in Types, c \in Vals :
          /\ zip_write(T, c)
          /\ call' = IF ret' = Void
                     THEN [op |-> "write", T |-> T, id |-> zip.idx, c |-> c]
                     ELSE call
          /\ UNCHANGED <<updates, lastop, lifevars>>
    \/ zip_incr /\ UNCHANGED <<updates, call, lastop, lifevars>>

SpecZip == Init /\ [][NextZip]_vars

(***************************************************************************)
(* StateManager.  A state object is seen by the calls made on it: its      *)
(* constructor (push / replace), init(), update() and its destructor.      *)
(* The functions push, pop, replace and stop are called by the host        *)
(* between two update() calls, or by the top state inside its update().    *)
(***************************************************************************)
\* The members of the manager, with the objects its unique_ptrs destroyed.
manager == [m_states |-> m_states, m_pending_state |-> m_pending_state,
            m_pop_count |-> m_pop_count, destroyed |-> destroyed]

\* Resetting or overwriting a unique_ptr destroys the object it owned.
release(ptr) == IF ptr = NoObject THEN {} ELSE {ptr}

Min(a, b) == IF a < b THEN a ELSE b

top(states) == states[Len(states)]

\* push<T>(args...) with the freshly constructed object o.
push_init_now(mgr, o) ==
    [mgr EXCEPT !.m_states = Append(@, o)]
\* Mutant: a push that finds a state waiting keeps it and drops the new one.
push_keeps_first(mgr, o) ==
    IF mgr.m_pending_state = NoObject
    THEN [mgr EXCEPT !.m_pending_state = o]
    ELSE [mgr EXCEPT !.destroyed = @ \cup {o}]
push_of(mgr, o) ==
    [mgr EXCEPT !.m_pending_state = o,
                !.destroyed = @ \cup release(mgr.m_pending_state)]

\* pop()
pop_of(mgr) ==
    [mgr EXCEPT !.m_pop_count = Min(mgr.m_pop_count + 1, Len(mgr.m_states))]

\* stop(remove_pending)
stop_now(mgr, remove_pending) ==
    [mgr EXCEPT !.m_states = <<>>,
                !.destroyed = @ \cup Range(mgr.m_states)]
stop_keeps_pending(mgr, remove_pending) ==
    [mgr EXCEPT !.m_pop_count = Len(mgr.m_states)]
stop_of(mgr, remove_pending) ==
    [mgr EXCEPT !.m_pending_state =
                    IF remove_pending THEN NoObject ELSE @,
                !.destroyed =
                    IF remove_pending
                    THEN @ \cup release(mgr.m_pending_state) ELSE @,
                !.m_pop_count = Len(mgr.m_states)]

\* replace<T>(args...) with the freshly constructed object o.
push_only(mgr, o) == push_of(mgr, o)
replace_of(mgr, o) == push_of(stop_of(mgr, TRUE), o)

Destroy(o) == [e |-> "destroy", o |-> o]
InitOf(o) == [e |-> "init", o |-> o]
UpdateOf(o) == [e |-> "update", o |-> o]
UndefinedPop == [e |-> "undefined", o |-> NoObject]

\* The destructions of the n top states of the stack, the top one first.
RECURSIVE pops(_, _)
pops(states, n) ==
    IF n = 0 \/ states = <<>> THEN <<>>
    ELSE <<Destroy(top(states))>> \o pops(SubSeq(states, 1, Len(states) - 1), n - 1)

\* _pop_states_internal(): m_pop_count times m_states.pop(); m_pop_count is
\* left as it is.  std::stack::pop() on an empty stack is undefined.
pop_states_internal(states, count) ==
    [m_states |-> SubSeq(states, 1, Len(states) - Min(count, Len(states))),
     events |-> pops(states, count),
     undefined |-> count > Len(states)]

\* The object the caller of push / replace constructs.
construct(by_replace) ==
    /\ objects < MaxObjects
    /\ objects' = objects + 1
    /\ origin' = Append(origin, IF by_replace /\ smpc = "in_update"
                                THEN top(m_states) ELSE NoObject)

set_manager(mgr) ==
    /\ m_states' = mgr.m_states
    /\ m_pending_state' = mgr.m_pending_state
    /\ m_pop_count' = mgr.m_pop_count
    /\ destroyed' = mgr.destroyed

\* The host, or the top state in its update(), makes the call what.
\* The calls an update() call finds made.
pending_calls ==
    IF calls # <<>> /\ calls[Len(calls)] = "update" THEN <<>> ELSE calls

called(what) ==
    /\ smpc \in {"idle", "in_update"}
    /\ Len(pending_calls) < MaxCalls
    /\ calls' = Append(pending_calls, what)

push ==
    /\ called("push")
    /\ construct(FALSE)
    /\ set_manager(push_of(manager, objects + 1))
    /\ UNCHANGED <<smpc, smret, inited, events, popRequested>>

pop ==
    /\ called("pop")
    /\ set_manager(pop_of(manager))
    /\ popRequested' = TRUE
    /\ UNCHANGED <<smpc, smret, objects, origin, inited, events>>

stop(remove_pending) ==
    /\ called(IF remove_pending THEN "stop(true)" ELSE "stop(false)")
    /\ set_manager(stop_of(manager, remove_pending))
    /\ popRequested' = TRUE
    /\ UNCHANGED <<smpc, smret, objects, origin, inited, events>>

replace ==
    /\ called("replace")
    /\ construct(TRUE)
    /\ set_manager(replace_of(manager, objects + 1))
    /\ popRequested' = TRUE
    /\ UNCHANGED <<smpc, smret, inited, events>>

\* update() up to the call of the top state's update(): the coroutine
\* _basic_update_coroutine run to its co_return.
sm_update_call ==
    /\ smpc = "idle"
    /\ LET popped == pop_states_internal(m_states, m_pop_count)
           gone == {ev.o : ev \in Range(popped.events)}
           init == m_pending_state # NoObject
           states == IF init THEN Append(popped.m_states, m_pending_state)
                     ELSE popped.m_states
           inits == IF init THEN <<InitOf(m_pending_state)>> ELSE <<>>
           upd == IF states = <<>> THEN <<>> ELSE <<UpdateOf(top(states))>>
       IN  \/ /\ ~popped.undefined
              /\ m_states' = states
              /\ m_pending_state' = NoObject
              /\ inited' = inited \cup release(m_pending_state)
              /\ destroyed' = destroyed \cup gone
              /\ events' = popped.events \o inits \o upd
              /\ smpc' = IF states = <<>> THEN "idle" ELSE "in_update"
              /\ smret' = (states # <<>>)
           \* the pop of an empty stack: the program goes on as if it had
           \* not been made, or stops there
           \/ /\ popped.undefined
              /\ \/ /\ m_states' = states
                    /\ m_pending_state' = NoObject
                    /\ inited' = inited \cup release(m_pending_state)
                    /\ destroyed' = destroyed \cup gone
                    /\ events' = popped.events \o <<UndefinedPop>> \o inits \o upd
                    /\ smpc' = IF states = <<>> THEN "idle" ELSE "in_update"
                    /\ smret' = (states # <<>>)
                 \/ /\ m_states' = popped.m_states
                    /\ destroyed' = destroyed \cup gone
                    /\ events' = popped.events \o <<UndefinedPop>>
                    /\ smpc' = "crashed"
                    /\ UNCHANGED <<m_pending_state, inited, smret>>
    /\ popRequested' = FALSE
    /\ calls' = Append(pending_calls, "update")
    /\ UNCHANGED <<m_pop_count, objects, origin>>

\* The top state's update() returns, and update() with it.
sm_update_return ==
    /\ smpc = "in_update"
    /\ smpc' = "idle"
    /\ UNCHANGED <<m_states, m_pending_state, m_pop_count, smret, objects,
                   origin, inited, destroyed, events, popRequested, calls>>

\* The registry is left alone by the manager.
regidle == UNCHANGED <<regvars, ctlvars, histvars, updates, apivars>>

NextSM ==
    \/ push /\ regidle
    \/ pop /\ regidle
    \/ \E remove_pending \in BOOLEAN : stop(remove_pending) /\ regidle
    \/ replace /\ regidle
    \/ sm_update_call /\ regidle
    \/ sm_update_return /\ regidle

SpecSM == Init /\ [][NextSM]_vars

(***************************************************************************)
(* Notions the properties are stated with.                                 *)
(***************************************************************************)
StrictlyAscending(seq) == \A i \in 1 .. (Len(seq) - 1) : seq[i] < seq[i + 1]

\* update() has run all its systems and is about to return normally.
AtReturn == pc = "systems" /\ queue = <<>>

\* Ids spawn_entity has issued and update() has not purged since.
LiveIds == {id \in 0 .. (_entities_count - 1) : id \notin _killed_entities}

\* The queries view<T...>() of the registered component types.
Queries ==
    {q \in {<<"dummy0">>, <<"dummy1">>, <<"dummy0", "dummy1">>,
            <<"dummy1", "dummy0">>} : \A k \in 1 .. Len(q) : registered(q[k])}

\* Entity id holds no component in the stores comps.
NoComponent(comps, id) == \A k \in 1 .. Len(comps) : ~non_null(comps[k], id)

(***************************************************************************)
(* C1.  At the start of every update(), before any system callback is      *)
(* invoked, every id that was in pending-kill has its slot cleared in the  *)
(* store of every registered component type and is in the dead pool, and   *)
(* pending-kill is empty.                                                  *)
(***************************************************************************)
C1_PurgeBeforeSystems ==
    (pc = "systems" /\ invoked = <<>>) =>
        /\ _to_kill_entities = {}
        /\ \A id \in purged :
              /\ id \in _killed_entities
              /\ NoComponent(_components, id)

\* update() is about to invoke its first system, after purging an entity
\* that held a component.
C1_Witness ==
    /\ pc = "systems" /\ invoked = <<>> /\ queue # <<>>
    /\ \E id \in purged : ~NoComponent(snap, id)

(***************************************************************************)
(* C2.  kill_entity(e) only adds e to pending-kill and modifies no         *)
(* component store; an entity a system kills during an update() call keeps *)
(* its components until that call has returned and is purged by step 1 of  *)
(* the next update() call.                                                 *)
(***************************************************************************)
C2_KillIsDeferred ==
    [][ \* a kill made by the host
        /\ (pc = "idle" /\ pc' = "idle"
              /\ _to_kill_entities' # _to_kill_entities) =>
              /\ _components' = _components
              /\ _killed_entities' = _killed_entities
              /\ \E e \in EntityIds :
                    _to_kill_entities' = _to_kill_entities \cup {e}
        \* the kills made by a system
        /\ (pc = "systems" /\ _to_kill_entities' # _to_kill_entities) =>
              /\ _components' = _components
              /\ _killed_entities' = _killed_entities
              /\ _to_kill_entities \subseteq _to_kill_entities'
        \* nothing is purged while update() runs its systems and returns
        /\ (pc # "idle") =>
              /\ _killed_entities' = _killed_entities
              /\ \A e \in _to_kill_entities :
                    /\ e \in _to_kill_entities'
                    /\ \A k \in 1 .. Len(_components) :
                          non_null(_components'[k], e) = non_null(_components[k], e)
        \* step 1 of the next update() purges what is pending
        /\ (pc = "idle" /\ pc' = "systems") =>
              \A e \in _to_kill_entities :
                 /\ e \in _killed_entities'
                 /\ NoComponent(_components', e)
      ]_vars

\* update() is about to return and a system has killed an entity in it,
\* which still holds both components.
C2_Witness ==
    /\ AtReturn
    /\ \E e \in _to_kill_entities :
          all_set(_components, <<"dummy0", "dummy1">>, e)

(***************************************************************************)
(* C3.  For an entity e holding a component type T: kill(e), and a spawn   *)
(* after it, leave get<T>(e) as it was (it still returns the stored        *)
(* value); once update() has run, get<T>(e) fails with NotFound.           *)
(***************************************************************************)
C3_GetAfterKill ==
    [][ \* kill_entity and spawn_entity steps of the host
        /\ (pc = "idle" /\ pc' = "idle"
              /\ \/ _to_kill_entities' # _to_kill_entities
                 \/ _entities_count' # _entities_count
                 \/ _killed_entities' # _killed_entities) =>
              \A T \in Types, e \in EntityIds :
                 get_component_in(_components', T, e) = get_component(T, e)
        \* the purge of update()
        /\ (pc = "idle" /\ pc' = "systems") =>
              \A T \in Types, e \in _to_kill_entities :
                 get_component(T, e).kind = "value" =>
                    get_component_in(_components', T, e) = NotFound
        \* the return of update()
        /\ AtReturn =>
              \A T \in Types, e \in purged :
                 get_component_in(snap, T, e).kind = "value" =>
                    get_component(T, e) = NotFound
      ]_vars

\* update() is about to return after purging an entity that held dummy1.
C3_Witness ==
    /\ AtReturn
    /\ \E e \in purged : get_component_in(snap, "dummy1", e) = Value(1)

(***************************************************************************)
(* C4.  An id that has been killed is never returned by spawn before the   *)
(* update() that purges it, and when a purged id is available spawn        *)
(* returns a purged id and issues no new one.  (Stated for the ids spawn   *)
(* had already issued when they were returned again.)                      *)
(***************************************************************************)
C4_NoReuseBeforePurge ==
    [][ (pc = "idle" /\ pc' = "idle"
           /\ \/ _entities_count' # _entities_count
              \/ _killed_entities' # _killed_entities) =>
           /\ ret'.kind = "entity"
           /\ (ret'.id < _entities_count) => ret'.id \notin _to_kill_entities
           /\ (_killed_entities # {}) =>
                 /\ ret'.id \in _killed_entities
                 /\ _entities_count' = _entities_count
      ]_vars

(***************************************************************************)
(* C5.  Iterating view<T1..Tn>() yields exactly the entities whose slots   *)
(* are occupied in all n stores, each once, in strictly ascending id       *)
(* order.  (Stated for the states in which every such entity is one spawn  *)
(* has issued and update() has not purged, no kill is pending, and only    *)
(* ids spawn had issued have been purged.)                                 *)
(***************************************************************************)
C5_ViewYieldsHolders ==
    (/\ pc = "idle"
     /\ _to_kill_entities = {}
     /\ _killed_entities \subseteq 0 .. (_entities_count - 1)) =>
        \A q \in Queries :
           (holders(_components, q) \subseteq LiveIds) =>
              /\ Range(view(q)) = holders(_components, q)
              /\ StrictlyAscending(view(q))

(***************************************************************************)
(* C6.  An entity in pending-kill is still alive for queries: a view       *)
(* constructed after kill(e) and before the next update() yields e         *)
(* whenever e holds all the queried component types.  (Stated for the      *)
(* entities that were live when killed.)                                   *)
(***************************************************************************)
C6_PendingKillInView ==
    (pc = "idle") =>
        \A q \in Queries :
           \A e \in _to_kill_entities \cap LiveIds :
              all_set(_components, q, e) => e \in Range(view(q))

(***************************************************************************)
(* C7.  On every update() call the registered systems are invoked in the   *)
(* order in which they were registered, whatever their names.              *)
(***************************************************************************)
C7_RegistrationOrder == AtReturn => invoked = regOrder

(***************************************************************************)
(* C8.  Each update() call invokes every currently registered system       *)
(* exactly once.                                                           *)
(***************************************************************************)
\* The names invoked by an update() call that is about to return or to
\* propagate an exception are the registered names, each once.
InvokedEachOnce ==
    /\ Len(invoked) = Cardinality(DOMAIN _systems)
    /\ Range(invoked) = DOMAIN _systems

Registered(sys) == Cardinality({n \in DOMAIN _systems : _systems[n] = sys})

\* The field x of the captured entity's component T in the stores comps.
X(comps, T) == get_component_in(comps, T, CapturedEntity).value

running == events[Len(events)].o

\* The objects a replace<T>() made inside a state's update() constructed.
Replacers == {o \in 1 .. objects : origin[o] # NoObject}

(***************************************************************************)
(* C9.  When a state calls replace<OtherState>() inside its own update(),  *)
(* OtherState::init() is not called before the next update() call of the   *)
(* manager, and the calling state is destroyed only after its update() has *)
(* returned, and before OtherState::init() is called.                      *)
(***************************************************************************)
C9_ReplaceIsDeferred ==
    \* a state waiting in m_pending_state has not been initialised
    /\ (m_pending_state # NoObject) => m_pending_state \notin inited
    \* the state whose update() is executing is alive
    /\ (smpc = "in_update") => running \notin destroyed
    /\ \A o \in Replacers :
          /\ (smpc = "in_update" /\ running = origin[o]) => o \notin inited
          /\ (o \in inited) => origin[o] \in destroyed
          /\ \A i \in 1 .. Len(events) :
                (events[i] = InitOf(o)) =>
                    \E j \in 1 .. (i - 1) : events[j] = Destroy(origin[o])

\* An update() call has destroyed a state that had replaced itself in its
\* update(), initialised its replacement and is executing its update().
C9_Witness ==
    /\ smpc = "in_update"
    /\ \E o \in Replacers :
          events = <<Destroy(origin[o]), InitOf(o), UpdateOf(o)>>

(***************************************************************************)
(* C10.  A state installed by an update() call stays on the stack and has  *)
(* its update() called by every later update() call of the manager while   *)
(* it is the top of the stack; it leaves the stack only through a pop,     *)
(* replace or stop requested after it was installed.                       *)
(***************************************************************************)
\* The step is a call of StateManager::update().
IsUpdateCall == smpc = "idle" /\ objects' = objects /\ ~popRequested'

C10_StaysUntilPopped ==
    [][ /\ (IsUpdateCall /\ m_states' # <<>> /\ smpc' # "crashed") =>
              /\ smpc' = "in_update"
              /\ events' # <<>>
              /\ events'[Len(events')] = UpdateOf(top(m_states'))
        /\ \A o \in Range(m_states) \ Range(m_states') : popRequested
      ]_vars

\* What an update() call does to the manager as it is, when the stack holds
\* the m_pop_count states to pop: the states left, with the pending one.
stack_after ==
    LET left == SubSeq(m_states, 1, Len(m_states) - m_pop_count)
    IN  IF m_pending_state = NoObject THEN left
        ELSE Append(left, m_pending_state)

(***************************************************************************)
(* C11.  Every update() call of the manager does, in this order: pop the   *)
(* pending pop-count of states off the stack, destroying each; if a push   *)
(* is pending, call its init(), push it on the stack and clear the pending *)
(* slot; call update() on the top of the resulting stack and return true.  *)
(***************************************************************************)
C11_UpdateSteps ==
    [][ IsUpdateCall =>
          /\ m_pop_count <= Len(m_states)
          /\ smpc' # "crashed"
          /\ m_states' = stack_after
          /\ m_pending_state' = NoObject
          /\ events' = pops(m_states, m_pop_count)
                        \o (IF m_pending_state = NoObject THEN <<>>
                            ELSE <<InitOf(m_pending_state)>>)
                        \o (IF stack_after = <<>> THEN <<>>
                            ELSE <<UpdateOf(top(stack_after))>>)
          /\ (stack_after # <<>>) => (smret' /\ smpc' = "in_update")
      ]_vars

C13_EmptyReturnsFalse ==
    [][ (/\ IsUpdateCall
         /\ m_pending_state = NoObject
         /\ m_pop_count >= Len(m_states)) =>
           /\ smpc' = "idle"
           /\ smret' = FALSE
           /\ m_states' = <<>>
           /\ \A i \in 1 .. Len(events') : events'[i].e = "destroy"
      ]_vars

\* The calls made since the last update() call are pop() calls, one at least.
OnlyPops ==
    /\ pending_calls # <<>>
    /\ \A i \in 1 .. Len(pending_calls) : pending_calls[i] = "pop"

(***************************************************************************)
(* C14.  pop() increments the pending pop-count, saturating at the depth   *)
(* of the stack, and pops nothing when called: k pop() calls followed by   *)
(* one update() remove exactly min(k, depth) states from the top of the    *)
(* stack.                                                                  *)
(***************************************************************************)
C14_PopSaturates ==
    [][ /\ (calls' = Append(pending_calls, "pop")) =>
              /\ m_pop_count' = Min(m_pop_count + 1, Len(m_states))
              /\ m_states' = m_states
              /\ destroyed' = destroyed
        /\ (IsUpdateCall /\ OnlyPops) =>
              LET n == Min(Len(pending_calls), Len(m_states))
              IN  /\ smpc' # "crashed"
                  /\ m_states' = SubSeq(m_states, 1, Len(m_states) - n)
                  /\ events' = pops(m_states, n)
                                \o (IF m_states' = <<>> THEN <<>>
                                    ELSE <<UpdateOf(top(m_states'))>>)
      ]_vars

\* The last call made before the update() call at hand.
last_call ==
    IF pending_calls = <<>> THEN "none" ELSE pending_calls[Len(pending_calls)]

(***************************************************************************)
(* C15.  replace<NewState>() schedules the unwinding of the whole stack    *)
(* and the installation of NewState, both applied by the next update():    *)
(* after that update() the stack is NewState alone (depth 1), whatever its *)
(* depth was.                                                              *)
(***************************************************************************)
C15_ReplaceInstallsOne ==
    [][ /\ (calls' = Append(pending_calls, "replace")) =>
              /\ m_states' = m_states
              /\ m_pending_state' = objects'
              /\ m_pop_count' = Len(m_states)
        /\ (IsUpdateCall /\ last_call = "replace") =>
              /\ m_pending_state = objects
              /\ m_states' = <<m_pending_state>>
              /\ Range(m_states) \subseteq destroyed'
              /\ smpc' = "in_update"
              /\ events' = pops(m_states, Len(m_states))
                            \o <<InitOf(m_pending_state), UpdateOf(m_pending_state)>>
      ]_vars

\* An update() call that followed a replace has unwound a stack of two
\* states and installed the new one.
C15_Witness ==
    /\ smpc = "in_update"
    /\ calls = <<"replace", "update">>
    /\ Len(events) = 4
    /\ events[1].e = "destroy" /\ events[2].e = "destroy"
    /\ m_states = <<objects>>
    /\ running = objects

(***************************************************************************)
(* C16.  stop(false) schedules the popping of the whole stack and keeps a  *)
(* pending push, which the next update() installs after the unwinding;     *)
(* stop(true) also discards the pending push, so that the next update()    *)
(* leaves the stack empty and returns false.                               *)
(***************************************************************************)
C16_StopUnwinds ==
    [][ /\ (calls' = Append(pending_calls, "stop(false)")) =>
              /\ m_states' = m_states
              /\ m_pending_state' = m_pending_state
              /\ m_pop_count' = Len(m_states)
        /\ (calls' = Append(pending_calls, "stop(true)")) =>
              /\ m_states' = m_states
              /\ m_pending_state' = NoObject
              /\ m_pop_count' = Len(m_states)
        /\ (IsUpdateCall /\ last_call = "stop(false)") =>
              /\ Range(m_states) \subseteq destroyed'
              /\ m_states' = IF m_pending_state = NoObject THEN <<>>
                             ELSE <<m_pending_state>>
              /\ events' = pops(m_states, Len(m_states))
                            \o (IF m_pending_state = NoObject THEN <<>>
                                ELSE <<InitOf(m_pending_state),
                                       UpdateOf(m_pending_state)>>)
        /\ (IsUpdateCall /\ last_call = "stop(true)") =>
              /\ Range(m_states) \subseteq destroyed'
              /\ m_states' = <<>>
              /\ smret' = FALSE
              /\ smpc' = "idle"
      ]_vars

\* An update() call that followed push<T>() and stop(false) has unwound the
\* stack and installed the pushed state.
C16_Witness ==
    /\ smpc = "in_update"
    /\ calls = <<"push", "stop(false)", "update">>
    /\ Len(events) = 3
    /\ events[1].e = "destroy"
    /\ events[2] = InitOf(objects)
    /\ m_states = <<objects>>

\* The number of events ev among those of an update() call.
Count(evs, ev) == Cardinality({i \in 1 .. Len(evs) : evs[i] = ev})

(***************************************************************************)
(* C17.  For every state installed through push, init() is called exactly  *)
(* once, by the first update() of the manager after the push and before    *)
(* the first update() of the state; each later update() of the manager     *)
(* calls only the update() of the state, exactly once, and never its       *)
(* init() again.  (The later update() calls are those that find the state  *)
(* on top of the stack and no call made since the update() before.)        *)
(***************************************************************************)
C17_InitOnceThenUpdates ==
    [][ /\ ~IsUpdateCall => inited' = inited
        \* the first update() after the push
        /\ (IsUpdateCall /\ m_pending_state # NoObject) =>
              /\ m_pending_state \notin inited
              /\ Count(events', InitOf(m_pending_state)) = 1
              /\ Len(events') >= 2
              /\ events'[Len(events') - 1] = InitOf(m_pending_state)
              /\ events'[Len(events')] = UpdateOf(m_pending_state)
        \* the later ones
        /\ (IsUpdateCall /\ m_states # <<>> /\ pending_calls = <<>>) =>
              /\ top(m_states) \in inited
              /\ events' = <<UpdateOf(top(m_states))>>
      ]_vars

\* The ids spawn_entity has issued.
IssuedIds == 0 .. (_entities_count - 1)

(***************************************************************************)
(* C18.  After any sequence of spawn, kill and update calls,               *)
(* entities_count() is the number of entities alive: the ids issued, less  *)
(* those of the dead pool, less those in pending-kill.  (Stated for the    *)
(* kills of ids spawn had issued.)                                         *)
(***************************************************************************)
C18_CountIsAlive ==
    (/\ pc = "idle"
     /\ (_killed_entities \cup _to_kill_entities) \subseteq IssuedIds) =>
        entities_count =
            Cardinality(IssuedIds \ (_killed_entities \cup _to_kill_entities))

(***************************************************************************)
(* C19.  The entities in pending-kill are valid and counted until the      *)
(* purge: kill(e) does not change entities_count() before the next         *)
(* update(), and entities_count() is always the number of issued ids for   *)
(* which is_entity_valid is true.  (Stated for the kills of ids spawn had  *)
(* issued.)                                                                *)
(***************************************************************************)
C19_PendingKillCounted ==
    [][ /\ (pc = "idle" /\ pc' = "idle"
              /\ _to_kill_entities' # _to_kill_entities
              /\ _to_kill_entities' \subseteq IssuedIds) =>
              entities_count' = entities_count
        /\ (/\ pc = "idle"
            /\ (_killed_entities \cup _to_kill_entities) \subseteq IssuedIds) =>
              entities_count =
                  Cardinality({id \in IssuedIds : is_entity_valid(id)})
      ]_vars

(***************************************************************************)
(* C20.  If N entities have been spawned with the components dummy0 and    *)
(* dummy1, with no kill before, and a registered system kills every entity *)
(* view<dummy0, dummy1>() yields, then after one update()                  *)
(* entities_count() is 0, for any N.                                       *)
(***************************************************************************)
C20_MassKill ==
    (/\ AtReturn
     /\ invoked = <<"kall">>
     /\ purged = {} /\ _killed_entities = {}
     /\ registered("dummy0") /\ registered("dummy1")
     /\ \A id \in IssuedIds : all_set(snap, <<"dummy0", "dummy1">>, id)) =>
        entities_count = 0

\* update() is about to return after its system has killed the two entities
\* spawned, which hold both components.
C20_Witness ==
    /\ AtReturn
    /\ invoked = <<"kall">>
    /\ purged = {} /\ _killed_entities = {}
    /\ _entities_count = 2
    /\ registered("dummy0") /\ registered("dummy1")
    /\ \A id \in IssuedIds : all_set(snap, <<"dummy0", "dummy1">>, id)
    /\ _to_kill_entities = {0, 1}
    /\ entities_count = 0

(***************************************************************************)
(* C21.  is_entity_valid(id) is true iff id is in the range of the ids     *)
(* issued so far and is not in the dead pool: an entity killed stays valid *)
(* until update() runs and is invalid afterwards, and an id never issued   *)
(* is not valid.                                                           *)
(***************************************************************************)
C21_ValidIffIssuedAndAlive ==
    (pc = "idle") =>
        \A id \in 0 .. MaxEntities :
           is_entity_valid(id) <=>
              (id \in IssuedIds /\ id \notin _killed_entities)

\* The step is a call of spawn_entity by the host.
IsSpawn ==
    /\ pc = "idle" /\ pc' = "idle"
    /\ \/ _entities_count' # _entities_count
       \/ _killed_entities' # _killed_entities

\* The smallest element of a non-empty set of ids.
Smallest(ids) == CHOOSE id \in ids : \A other \in ids : id <= other

(***************************************************************************)
(* C22.  spawn returns the smallest free id: when purged ids are available *)
(* it returns the smallest of them and no new id, and only when none is    *)
(* available does it allocate and return the prior high-water mark.        *)
(***************************************************************************)
C22_SpawnSmallestFree ==
    [][ IsSpawn =>
          /\ ret'.kind = "entity"
          /\ IF _killed_entities # {}
             THEN /\ ret'.id = Smallest(_killed_entities)
                  /\ _killed_entities' = _killed_entities \ {ret'.id}
                  /\ _entities_count' = _entities_count
             ELSE /\ ret'.id = _entities_count
                  /\ _entities_count' = _entities_count + 1
                  /\ _killed_entities' = _killed_entities
      ]_vars

\* C22 as amended: when purged ids are available spawn returns one of them,
\* whichever, and no new id; when none is available it allocates and returns
\* the prior high-water mark.
C22_SpawnReusesSomePurged ==
    [][ IsSpawn =>
          /\ ret'.kind = "entity"
          /\ IF _killed_entities # {}
             THEN /\ ret'.id \in _killed_entities
                  /\ _killed_entities' = _killed_entities \ {ret'.id}
                  /\ _entities_count' = _entities_count
             ELSE /\ ret'.id = _entities_count
                  /\ _entities_count' = _entities_count + 1
                  /\ _killed_entities' = _killed_entities
      ]_vars

\* spawn_entity has returned the larger of two purged ids, and the smaller
\* is still in the dead pool.
C22_Witness ==
    /\ pc = "idle"
    /\ ret = Returned(1)
    /\ _killed_entities = {0}
    /\ _to_kill_entities = {}
    /\ _entities_count = 2

\* The entity id holds a component of type T.
holds(T, id) == registered(T) /\ non_null(get_components(T), id)

(***************************************************************************)
(* C23.  get<T>(e) on an entity that does not hold T (never emplaced,      *)
(* removed, or purged), for any id, those at or beyond the capacity of the *)
(* store included, fails with a NotFound error and never reads outside the *)
(* store; the registry is left unchanged.                                  *)
(***************************************************************************)
C23_GetNotFound ==
    [][ (call'.op = "get" /\ ~holds(call'.T, call'.id)) =>
          /\ ret' = NotFound
          /\ get_component(call'.T, call'.id) # Undefined
          /\ pc' = pc
          /\ UNCHANGED regvars
      ]_vars

(***************************************************************************)
(* C24.  After any sequence of emplace / remove on the same component type *)
(* and entity, the slot is occupied iff the last of them was emplace,      *)
(* however many times it toggled and whatever the id.                      *)
(***************************************************************************)
C24_LastOperationDecides ==
    \A T \in Types, id \in StoreIds :
       (registered(T) /\ lastop[<<T, id>>] # "none") =>
          (non_null(get_components(T), id) <=> lastop[<<T, id>>] = "emplace")

\* A slot beyond the default size has been emplaced, then removed, while the
\* slot 0 of the same store is occupied.
C24_Witness ==
    /\ call.op = "remove"
    /\ call.id = DefaultSize + 1
    /\ registered(call.T)
    /\ size(get_components(call.T)) > call.id
    /\ ~non_null(get_components(call.T), call.id)
    /\ lastop[<<call.T, 0>>] = "emplace"

(***************************************************************************)
(* C25.  Registering a component type that is already registered signals   *)
(* an error and leaves the registry unchanged: no type index, store or     *)
(* removal closure is added.                                               *)
(***************************************************************************)
C25_RegisterTwice ==
    [][ (call'.op = "register" /\ registered(call'.T)) =>
          /\ ret' = Throw
          /\ UNCHANGED regvars
      ]_vars

\* A type whose store holds a component has been registered again.
C25_Witness ==
    /\ call.op = "register"
    /\ ret = Throw
    /\ holds(call.T, 0)
    /\ Len(_components) = Cardinality(DOMAIN _components_types_index)

(***************************************************************************)
(* C26.  add_system under a name in use, and remove_system of a name that  *)
(* is not registered, each raise an error and leave the registered systems *)
(* (and the callback stored under the name in use) unchanged.              *)
(***************************************************************************)
C26_SystemTableMisuse ==
    [][ /\ (call'.op = "add_system" /\ call'.name \in DOMAIN _systems) =>
              /\ ret' = Throw
              /\ _systems' = _systems
              /\ UNCHANGED regvars
        /\ (call'.op = "remove_system" /\ call'.name \notin DOMAIN _systems) =>
              /\ ret' = Throw
              /\ _systems' = _systems
              /\ UNCHANGED regvars
      ]_vars

\* add_system has been called with another callback under a name in use,
\* which keeps its callback.
C26_Witness ==
    /\ call.op = "add_system"
    /\ ret = Throw
    /\ call.name \in DOMAIN _systems
    /\ _systems[call.name] # call.sys

\* The names invoked are the names registered and not removed since, each
\* once.
InvokedThoseLeft ==
    /\ Range(invoked) = Range(regOrder)
    /\ Len(invoked) = Len(regOrder)

\* The last remove_system removed a registered system, whose name has not
\* been registered again.
Removed(name) ==
    /\ call.op = "remove_system"
    /\ call.name = name
    /\ call.was
    /\ name \notin Range(regOrder)

C28_OutOfRangeHarmless ==
    [][ /\ \A T \in DOMAIN _components_types_index :
              LET data == get_components(T)
              IN  \A id \in 0 .. (size(data) + 2) :
                     /\ (id >= size(data)) => ~non_null(data, id)
                     /\ ~non_null(data, id) => erase(data, id) = data
        /\ (call'.op = "remove" /\ ~holds(call'.T, call'.id)) =>
              _components' = _components
      ]_vars

\* remove has been called for an id beyond a store of the default size,
\* whose slot 0 is occupied.
C28_Witness ==
    /\ call.op = "remove"
    /\ call.id = DefaultSize + 1
    /\ ret = Void
    /\ holds(call.T, 0)
    /\ size(get_components(call.T)) = DefaultSize

(***************************************************************************)
(* C29.  insert(id, value) succeeds for any id by growing the store until  *)
(* it covers the slot id, and the size of a store never decreases under    *)
(* any operation (erase clears a slot without shrinking the store).        *)
(***************************************************************************)
C29_GrowOnly ==
    [][ /\ \A T \in DOMAIN _components_types_index :
              size(_components'[_components_types_index[T] + 1])
                  >= size(get_components(T))
        /\ (call'.op = "emplace" /\ registered(call'.T)) =>
              LET after == _components'[_components_types_index[call'.T] + 1]
                  before == get_components(call'.T)
              IN  /\ ret' = Void
                  /\ size(after) > call'.id
                  /\ size(after) = IF size(before) > call'.id
                                   THEN size(before) ELSE call'.id + 1
                  /\ non_null(after, call'.id)
      ]_vars

\* emplace has been called for an id beyond a store of the default size,
\* which has grown to cover the slot.
C29_Witness ==
    /\ call.op = "emplace"
    /\ call.id = DefaultSize + 1
    /\ call.before = Undefined
    /\ size(get_components(call.T)) = DefaultSize + 2
    /\ holds(call.T, call.id)

(***************************************************************************)
(* C30.  Emplacing a component type on an entity that already holds it     *)
(* replaces the value: the slot stays occupied and a get<T>(e) that        *)
(* follows returns the value of the last emplace.                          *)
(***************************************************************************)
C30_EmplaceReplaces ==
    [][ (call'.op = "emplace" /\ registered(call'.T)) =>
          /\ get_component_in(_components', call'.T, call'.id) = Value(call'.c)
          /\ \A T \in DOMAIN _components_types_index, id \in StoreIds :
                (<<T, id>> # <<call'.T, call'.id>>) =>
                    get_component_in(_components', T, id) = get_component(T, id)
      ]_vars

\* The slot held the value 1 when emplace was called with the value 2, which
\* it holds now.
C30_Witness ==
    /\ call.op = "emplace"
    /\ call.before = Value(1)
    /\ call.c = 2
    /\ get_component(call.T, call.id) = Value(2)

\* The stores comps after emplace_component<T>(to, c) of a registered T.
emplaced(comps, T, to, c) ==
    with_components(comps, T,
                    insert(comps[_components_types_index[T] + 1], to, c))

(***************************************************************************)
(* C31.  Emplaces of distinct component types on the same entity commute:  *)
(* after emplace<X>(e, a) and emplace<Y>(e, b) in either order, e holds X  *)
(* with value a and Y with value b, and no slot of any other entity or     *)
(* type is changed.                                                        *)
(***************************************************************************)
C31_EmplacesCommute ==
    [][ /\ \A T1 \in DOMAIN _components_types_index,
              T2 \in DOMAIN _components_types_index,
              e \in StoreIds, a \in Vals, b \in Vals :
              (T1 # T2) =>
                 LET xy == emplaced(emplaced(_components, T1, e, a), T2, e, b)
                     yx == emplaced(emplaced(_components, T2, e, b), T1, e, a)
                 IN  /\ xy = yx
                     /\ get_component_in(xy, T1, e) = Value(a)
                     /\ get_component_in(xy, T2, e) = Value(b)
                     /\ \A T \in DOMAIN _components_types_index,
                           id \in StoreIds :
                           (id # e \/ T \notin {T1, T2}) =>
                              get_component_in(xy, T, id) = get_component(T, id)
        \* the second of two emplace calls in a row, of another type on the
        \* same entity
        /\ ( /\ call.op = "emplace" /\ call'.op = "emplace"
             /\ call.id = call'.id /\ call.T # call'.T
             /\ registered(call.T) /\ registered(call'.T) ) =>
              /\ _components' = emplaced(_components, call'.T, call'.id, call'.c)
              /\ get_component_in(_components', call.T, call.id) = Value(call.c)
              /\ get_component_in(_components', call'.T, call'.id)
                    = Value(call'.c)
      ]_vars

\* dummy1 has been emplaced on the entity right after dummy0, with another
\* value: the entity holds both.
C31_Witness ==
    /\ call.op = "emplace"
    /\ call.T = "dummy1"
    /\ call.c = 2
    /\ lastop[<<"dummy0", call.id>>] = "emplace"
    /\ get_component("dummy0", call.id) = Value(1)
    /\ get_component("dummy1", call.id) = Value(2)

(***************************************************************************)
(* C35.  In every reachable state of the StateManager the pending          *)
(* pop-count is at most the depth of the live stack, so update() never     *)
(* pops an empty stack.                                                    *)
(***************************************************************************)
C35_PopCountWithinDepth ==
    /\ m_pop_count <= Len(m_states)
    /\ UndefinedPop \notin Range(events)
    /\ smpc # "crashed"

C34_LiveIdsDistinct ==
    [][ (IsSpawn /\ strays = {}) => life[ret'.id] # "live" ]_vars

(***************************************************************************)
(* C36.  In every reachable state of the registry the dead pool and        *)
(* pending-kill are disjoint and their sizes together never exceed the     *)
(* number of ids issued, so the unsigned subtraction of entities_count()   *)
(* never wraps around and entities_count() is at most the number of ids    *)
(* issued.  (Stated for the states reached by kills of ids that spawn had  *)
(* returned.)                                                              *)
(***************************************************************************)
C36_CountNeverWraps ==
    (strays = {}) =>
        /\ _killed_entities \cap _to_kill_entities = {}
        /\ Cardinality(_killed_entities) + Cardinality(_to_kill_entities)
              <= _entities_count
        /\ entities_count <= _entities_count

(***************************************************************************)
(* C37.  Every entity returned by spawn, fresh or recycled, holds no       *)
(* component of any registered type at the moment it is returned, for any  *)
(* prior sequence of spawn / emplace / remove / kill / update in which     *)
(* emplace is applied only to entities that were spawned and not yet       *)
(* purged.                                                                 *)
(***************************************************************************)
C37_SpawnedHoldsNothing ==
    [][ IsSpawn =>
          \A T \in DOMAIN _components_types_index :
             ~non_null(_components'[_components_types_index[T] + 1], ret'.id)
      ]_vars

(***************************************************************************)
(* C40.  Each newly registered component type is assigned the next free    *)
(* integer index (0, 1, 2, ... in registration order, distinct per type)   *)
(* together with exactly one removal closure, so in every reachable state  *)
(* the number of stores, of removal closures and of type-index entries are *)
(* equal to the number of registered types.                                *)
(***************************************************************************)
C40_OneIndexStoreClosurePerType ==
    LET n == Cardinality(DOMAIN _components_types_index)
    IN  /\ _last_component_index = n
        /\ Len(_components) = n
        /\ Len(_remove_system_methods) = n
        \* the k-th type registered has the index k - 1 and the k-th closure
        /\ \A k \in 1 .. n :
              /\ _remove_system_methods[k] \in DOMAIN _components_types_index
              /\ _components_types_index[_remove_system_methods[k]] = k - 1
        /\ \A T \in DOMAIN _components_types_index,
              U \in DOMAIN _components_types_index :
              (T # U) => _components_types_index[T] # _components_types_index[U]

\* dummy1 has been registered, then dummy0.
C40_Witness ==
    /\ DOMAIN _components_types_index = Types
    /\ _components_types_index["dummy1"] = 0
    /\ _components_types_index["dummy0"] = 1
    /\ _remove_system_methods = <<"dummy1", "dummy0">>
    /\ Len(_components) = 2

\* The position of types[k] = T in the query types.
PositionsOf(types, T) == {k \in 1 .. Len(types) : types[k] = T}

(***************************************************************************)
(* C32.  A view does not cache component values: a value written through   *)
(* a reference yielded by a view is immediately observed by get<T>(e) and  *)
(* by any later dereference or later view over the same entity.            *)
(***************************************************************************)
C32_WritesAreSeen ==
    (call.op = "write") =>
        /\ get_component(call.T, call.id) = Value(call.c)
        \* what a dereference made since has returned
        /\ (ret.kind = "tuple" /\ ret.id = call.id) =>
              \A k \in PositionsOf(zip.types, call.T) :
                 ret.values[k] = call.c
        \* what a dereference of the view held now, the same or a later
        \* one, returns for the entity
        /\ (zip.state # "none"
               /\ deref(_components, zip.types, call.id) # BadAccess) =>
              \A k \in PositionsOf(zip.types, call.T) :
                 deref(_components, zip.types, call.id).values[k] = call.c

\* The value 2 has been written to dummy1 through the reference yielded
\* for the entity 1, and a dereference made since at that entity has
\* returned it.
C32_Witness ==
    /\ call.op = "write" /\ call.id = 1 /\ call.c = 2
    /\ call.T = "dummy1"
    /\ zip.state = "looping" /\ zip.idx = 1
    /\ zip.types = <<"dummy0", "dummy1">>
    /\ ret.kind = "tuple" /\ ret.id = 1
    /\ ret.values = <<1, 2>>

\* The first entity from from up to end that holds every queried type in
\* the stores comps, and end when there is none.
FirstHolder(comps, types, from, end) ==
    LET found == {id \in from .. (end - 1) : all_set(comps, types, id)}
    IN  IF found = {} THEN end ELSE Smallest(found)

(***************************************************************************)
(* C33.  Iteration reflects the current store state, not a copy frozen at  *)
(* view construction: emplacing or removing a queried component type on an *)
(* entity that the iteration has not yet visited (including before the     *)
(* first step) changes whether that entity is yielded.  That is: the       *)
(* first entity yielded by a loop is the first holder in the stores as     *)
(* they are when the loop begins, and each ++ goes to the next holder in   *)
(* the stores as they are then.                                            *)
(***************************************************************************)
C33_IterationIsLive ==
    [][ (zip'.state \in {"looping", "done"} /\ zip' # zip) =>
          zip'.idx = FirstHolder(_components, zip.types,
                                 IF zip.state = "looping" THEN zip.idx + 1
                                 ELSE 0,
                                 zip.end)
      ]_vars

(***************************************************************************)
(* C38.  For a view with end index E, an iterator obtained from begin()    *)
(* never has an index greater than E, strictly increases its index on      *)
(* every ++, and compares equal to end() after at most E increments, so    *)
(* every begin-to-end loop terminates.                                     *)
(***************************************************************************)
C38_IteratorTerminates ==
    [][ /\ (zip'.state # "none") =>
              /\ zip'.begin <= zip'.end
              /\ zip'.idx <= zip'.end
              /\ zip'.incs <= zip'.idx
              /\ (zip'.state = "looping") => zip'.idx < zip'.end
              /\ (zip'.state = "done") => zip'.idx = zip'.end
        \* ++it
        /\ (zip.state = "looping" /\ zip' # zip) =>
              /\ zip'.incs = zip.incs + 1
              /\ zip'.idx > zip.idx
              /\ zip'.end = zip.end
      ]_vars

\* A loop over two entities that hold the queried types has ended after
\* two ++, components having been removed and emplaced on the way.
C38_Witness ==
    /\ zip.state = "done"
    /\ zip.end = 2
    /\ zip.begin = 0
    /\ zip.incs = 2
    /\ call.op = "none"
    /\ ~all_set(_components, zip.types, 0)

====
